---- MODULE Spec2Model ----
(***************************************************************************)
(* Yukyu Pro backend: the employees / leave_records store behind the       *)
(* /api/employees and /api/records handlers, and the /api/analyze          *)
(* compliance forwarder.  Every handler is an `async def` without an await *)
(* inside, so a handler runs to completion before the next one starts:     *)
(* one action per handler.  Spec is the store with its four handlers,     *)
(* SpecAI is one /analyze request against a process with or without the    *)
(* AI credential.                                                          *)
(*                                                                         *)
(* Strings of the source that are not ASCII are transliterated             *)
(* ("zaishokuchu" is the status literal of ai.py line 36).                 *)
(***************************************************************************)
EXTENDS Integers, Sequences, FiniteSets, TLC

VARIABLES
    employees,      \* the rows of table employees
    leave_records,  \* the rows of table leave_records
    now,            \* the wall clock read by datetime.now()
    client,         \* TRUE iff GEMINI_API_KEY was set at process start
    last            \* the last HTTP exchange: request, status, body

vars == <<employees, leave_records, now, client, last>>

-----------------------------------------------------------------------------
(* Bounds of the model *)

MaxBatch == 2
MaxTime == 2
MaxShortLen == 2
MaxAnalyzeLen == 11

-----------------------------------------------------------------------------
(* Python values *)

\* Python None / SQL NULL in a string position
None == "<None>"

\* Optional[List[...]]: None, or a list
NoneList == [isNone |-> TRUE, val |-> <<>>]
SomeList(l) == [isNone |-> FALSE, val |-> l]

\* truth value of an Optional[List]: None and [] are falsy
PyTruthy(o) == ~o.isNone /\ o.val # <<>>

\* a str holding a lone surrogate (JSON "\ud800"): pydantic accepts it,
\* sqlite3 cannot encode it as UTF-8 when it binds the parameter
LoneSurrogate == "<U+D800>"

IntStr(n) == <<"0", "1", "2", "3", "4", "5", "6", "7", "8", "9", "10", "11", "12">>[n + 1]

StrInt(s) == CHOOSE n \in 0..12 : IntStr(n) = s

Range(s) == {s[i] : i \in 1..Len(s)}

-----------------------------------------------------------------------------
(* json.dumps / json.loads over token texts.  A text is a sequence of      *)
(* tokens <<kind, lexeme>>: "p" punctuation, "s" string, "n" number,       *)
(* "b" boolean.                                                            *)

P(c) == <<"p", c>>
S(s) == <<"s", s>>
N(n) == <<"n", IntStr(n)>>
B(b) == <<"b", IF b THEN "true" ELSE "false">>

RECURSIVE CommaJoin(_)
CommaJoin(parts) ==
    IF parts = <<>> THEN <<>>
    ELSE IF Len(parts) = 1 THEN parts[1]
    ELSE parts[1] \o <<P(",")>> \o CommaJoin(Tail(parts))

\* mutant: the array written back to front
JsonDumpsDatesReversed(l) ==
    <<P("[")>> \o CommaJoin([i \in 1..Len(l) |-> <<S(l[Len(l) + 1 - i])>>]) \o <<P("]")>>

\* json.dumps(emp.yukyuDates): a JSON array of strings, in list order
JsonDumpsDates(l) ==
    <<P("[")>> \o CommaJoin([i \in 1..Len(l) |-> <<S(l[i])>>]) \o <<P("]")>>

\* json.dumps(p.dict()) of one PeriodHistory.  The model carries one field
\* of each JSON type of the class (int periodIndex, str periodName, number
\* granted, bool isExpired, list yukyuDates); its other ten fields are
\* scalars of these types and are written and read the same way.
JsonDumpsPeriod(p) ==
    <<P("{"),
      S("periodIndex"), P(":"), N(p.periodIndex), P(","),
      S("periodName"), P(":"), S(p.periodName), P(","),
      S("granted"), P(":"), N(p.granted), P(","),
      S("isExpired"), P(":"), B(p.isExpired), P(","),
      S("yukyuDates"), P(":")>> \o JsonDumpsDates(p.yukyuDates) \o <<P("}")>>

\* json.dumps([p.dict() for p in emp.periodHistory])
JsonDumpsPeriods(l) ==
    <<P("[")>> \o CommaJoin([i \in 1..Len(l) |-> JsonDumpsPeriod(l[i])]) \o <<P("]")>>

\* the result of a failed parse
ParseFail == [ok |-> FALSE, val |-> <<>>, kind |-> "error", elems |-> <<>>, next |-> 0]

ParseOk(v, k, e, n) == [ok |-> TRUE, val |-> v, kind |-> k, elems |-> e, next |-> n]

RECURSIVE ParseValue(_, _)
RECURSIVE ParseItems(_, _, _, _)
RECURSIVE ParseMembers(_, _, _)

\* the rest of an array: a value, then "," or "]"
ParseItems(t, i, acc, kinds) ==
    LET r == ParseValue(t, i) IN
    IF ~r.ok \/ r.next > Len(t) THEN ParseFail
    ELSE IF t[r.next] = P(",")
         THEN ParseItems(t, r.next + 1, Append(acc, r.val), Append(kinds, r.kind))
    ELSE IF t[r.next] = P("]")
         THEN ParseOk(Append(acc, r.val), "list", Append(kinds, r.kind), r.next + 1)
    ELSE ParseFail

\* the rest of an object: "key" ":" value, then "," or "}"
ParseMembers(t, i, acc) ==
    IF i + 1 > Len(t) \/ t[i][1] # "s" \/ t[i + 1] # P(":") THEN ParseFail
    ELSE LET r == ParseValue(t, i + 2)
             obj == (t[i][2] :> r.val) @@ acc
         IN IF ~r.ok \/ r.next > Len(t) THEN ParseFail
            ELSE IF t[r.next] = P(",") THEN ParseMembers(t, r.next + 1, obj)
            ELSE IF t[r.next] = P("}") THEN ParseOk(obj, "dict", <<>>, r.next + 1)
            ELSE ParseFail

\* one JSON value starting at token i
ParseValue(t, i) ==
    IF i > Len(t) THEN ParseFail
    ELSE IF t[i] = P("[")
         THEN IF i + 1 <= Len(t) /\ t[i + 1] = P("]")
              THEN ParseOk(<<>>, "list", <<>>, i + 2)
              ELSE ParseItems(t, i + 1, <<>>, <<>>)
    ELSE IF t[i] = P("{")
         THEN IF i + 1 <= Len(t) /\ t[i + 1] = P("}")
              THEN ParseOk(<<>>, "dict", <<>>, i + 2)
              ELSE ParseMembers(t, i + 1, <<>>)
    ELSE IF t[i][1] = "s" THEN ParseOk(t[i][2], "str", <<>>, i + 1)
    ELSE IF t[i][1] = "n" THEN ParseOk(StrInt(t[i][2]), "num", <<>>, i + 1)
    ELSE IF t[i][1] = "b" THEN ParseOk(t[i][2] = "true", "bool", <<>>, i + 1)
    ELSE ParseFail

\* json.loads(text): the value, or a JSONDecodeError (ok = FALSE)
JsonLoads(text) ==
    LET r == ParseValue(text, 1) IN
    IF r.ok /\ r.next = Len(text) + 1 THEN r ELSE ParseFail

-----------------------------------------------------------------------------
(* Request bodies *)

EmployeeIds == {"e1", "e2"}

Period1 == [periodIndex |-> 0, periodName |-> "first", granted |-> 10,
            isExpired |-> TRUE, yukyuDates |-> <<"2023-11-02">>]

Period2 == [periodIndex |-> 1, periodName |-> "second", granted |-> 11,
            isExpired |-> FALSE, yukyuDates |-> <<>>]

\* class Employee, by attribute name; the id is filled in by MkEmployee
EmployeeShapes ==
    { [employee_num |-> "1001", name |-> "Tanaka", haken |-> "HakenA",
       granted |-> 12, used |-> 2, balance |-> 10, usage_rate |-> 2, year |-> 2024,
       periodHistory |-> SomeList(<<Period2, Period1>>),
       yukyuDates |-> SomeList(<<"2024-06-10", "2024-05-01">>)],
      [employee_num |-> "1003", name |-> "Suzuki", haken |-> None,
       granted |-> 0, used |-> 0, balance |-> 0, usage_rate |-> 0, year |-> 2024,
       periodHistory |-> NoneList,
       yukyuDates |-> SomeList(<<>>)],
      [employee_num |-> "1004", name |-> LoneSurrogate, haken |-> "HakenA",
       granted |-> 12, used |-> 2, balance |-> 10, usage_rate |-> 2, year |-> 2024,
       periodHistory |-> SomeList(<<Period1>>),
       yukyuDates |-> SomeList(<<"2024-05-01">>)] }

MkEmployee(id, shape) == [id |-> id] @@ shape

EmployeeInputs ==
    { e \in {MkEmployee(id, sh) : id \in EmployeeIds, sh \in EmployeeShapes} :
        e.name = LoneSurrogate => e.id = "e2" }

\* List[Employee] request bodies
Batches == UNION {[1..n -> EmployeeInputs] : n \in 0..MaxBatch}

\* class LeaveRecord
LeaveRecordInputs ==
    { r \in [id : {"r1", "r2"}, employeeId : {"e1", "e9"}, date : {"2024-05-01"},
              type : {"full"}, duration : {"1"},
              note : {None, "am", LoneSurrogate},
              status : {"approved"}, createdAt : {"2024-04-30T09:00:00"}] :
        \/ r.note = None /\ r.employeeId = "e1" /\ r.id = "r2"
        \/ r.note = "am" /\ r.employeeId = "e9" /\ r.id = "r1"
        \/ r.note = LoneSurrogate /\ r.employeeId = "e9" /\ r.id = "r1" }

-----------------------------------------------------------------------------
(* The store *)

\* sqlite3 raises when it binds a str it cannot encode
BindFails(params) == \E i \in 1..Len(params) : params[i] = LoneSurrogate

RowIds(table) == {r.id : r \in table}

RowOf(table, id) == CHOOSE r \in table : r.id = id

\* mutant: a plain INSERT that keeps the row it should replace
InsertKeepingOld(table, row) == table \cup {row}

\* mutant: INSERT OR IGNORE, the stored row wins
InsertOrIgnore(table, row) ==
    IF row.id \in RowIds(table) THEN table ELSE table \cup {row}

\* INSERT OR REPLACE keyed by the primary key id: a row with the same id is
\* deleted and the new row inserted
InsertOrReplace(table, row) == {r \in table : r.id # row.id} \cup {row}

\* mutant: no rollback, the statements executed before the failure stay
RollbackMissing(committed, working) == working

\* conn.rollback(): the connection's uncommitted statements are undone
Rollback(committed, working) == committed

\* the parameter tuple of the INSERT OR REPLACE INTO employees statement
EmployeeRow(emp, timestamp) ==
    [id |-> emp.id, employee_num |-> emp.employee_num, name |-> emp.name,
     haken |-> emp.haken, granted |-> emp.granted, used |-> emp.used,
     balance |-> emp.balance, usage_rate |-> emp.usage_rate, year |-> emp.year,
     period_history |->
         IF PyTruthy(emp.periodHistory)
         THEN [isNull |-> FALSE, text |-> JsonDumpsPeriods(emp.periodHistory.val)]
         ELSE [isNull |-> TRUE, text |-> <<>>],
     yukyu_dates |->
         IF PyTruthy(emp.yukyuDates)
         THEN [isNull |-> FALSE, text |-> JsonDumpsDates(emp.yukyuDates.val)]
         ELSE [isNull |-> TRUE, text |-> <<>>],
     last_updated |-> timestamp]

EmployeeStrParams(emp) == <<emp.id, emp.employee_num, emp.name, emp.haken>>

\* the for loop of sync_employees from record i on: the table as the
\* connection sees it, and whether an execute raised
RECURSIVE SyncLoop(_, _, _, _)
SyncLoop(table, batch, i, timestamp) ==
    IF i > Len(batch) THEN [raised |-> FALSE, table |-> table]
    ELSE IF BindFails(EmployeeStrParams(batch[i]))
         THEN [raised |-> TRUE, table |-> table]
    ELSE SyncLoop(InsertOrReplace(table, EmployeeRow(batch[i], timestamp)),
                  batch, i + 1, timestamp)

\* mutant: the count of distinct ids
SyncCountDistinct(batch) == Cardinality({batch[i].id : i \in 1..Len(batch)})

\* the count of the success response
SyncCount(batch) == Len(batch)

\* POST /api/employees
SyncEmployees(batch) ==
    /\ now < MaxTime
    /\ LET timestamp == now
           run == SyncLoop(employees, batch, 1, timestamp)
       IN /\ employees' = IF run.raised THEN Rollback(employees, run.table)
                          ELSE run.table
          /\ last' = [op |-> "sync_employees", req |-> batch,
                       status |-> IF run.raised THEN 500 ELSE 200,
                       timestamp |-> timestamp,
                       count |-> IF run.raised THEN 0 ELSE SyncCount(batch),
                       resent |-> /\ last.op = "sync_employees"
                                  /\ last.status = 200
                                  /\ last.req = batch]
    /\ now' = now + 1
    /\ UNCHANGED <<leave_records, client>>

\* a json text column read back: NULL and "" are falsy and give []
LoadColumn(col) == IF ~col.isNull /\ col.text # <<>> THEN JsonLoads(col.text).val ELSE <<>>

\* one element of the GET /api/employees response
EmployeeWire(row) ==
    [id |-> row.id, employeeNum |-> row.employee_num, name |-> row.name,
     haken |-> row.haken, granted |-> row.granted, used |-> row.used,
     balance |-> row.balance, usageRate |-> row.usage_rate, year |-> row.year,
     periodHistory |-> LoadColumn(row.period_history),
     yukyuDates |-> LoadColumn(row.yukyu_dates)]

\* SELECT * without ORDER BY: the rows in an order the engine chooses
Fetchall(table) ==
    {rows \in [1..Cardinality(table) -> table] : Range(rows) = table}

GetEmployeesBody(rows) == [i \in 1..Len(rows) |-> EmployeeWire(rows[i])]

\* the keys a response element needs to validate as Employee (by alias)
EmployeeRequired ==
    {"id", "employeeNum", "name", "granted", "used", "balance", "usageRate", "year"}

\* the keys a response element needs to validate as LeaveRecord
LeaveRecordRequired ==
    {"id", "employeeId", "date", "type", "duration", "status", "createdAt"}

\* response_model=List[...]: the returned list is validated against the
\* model; an element without a required field makes the response a 500
ResponseModel(body, required) ==
    IF \A i \in 1..Len(body) : required \subseteq DOMAIN body[i]
    THEN [status |-> 200, body |-> body]
    ELSE [status |-> 500, body |-> <<>>]

\* GET /api/employees
GetEmployees ==
    /\ \E rows \in Fetchall(employees) :
           last' = [op |-> "get_employees"]
                       @@ ResponseModel(GetEmployeesBody(rows), EmployeeRequired)
    /\ UNCHANGED <<employees, leave_records, now, client>>

\* the parameter tuple of the INSERT OR REPLACE INTO leave_records statement
LeaveRow(record) ==
    [id |-> record.id, employee_id |-> record.employeeId, date |-> record.date,
     type |-> record.type, duration |-> record.duration, note |-> record.note,
     status |-> record.status, created_at |-> record.createdAt]

LeaveStrParams(record) ==
    <<record.id, record.employeeId, record.date, record.type, record.duration,
      record.note, record.status, record.createdAt>>

\* mutant: a foreign key on employee_id
SaveLeaveForeignKey(table, emps, record) ==
    IF BindFails(LeaveStrParams(record)) \/ record.employeeId \notin RowIds(emps)
    THEN [raised |-> TRUE, table |-> table]
    ELSE [raised |-> FALSE, table |-> InsertOrReplace(table, LeaveRow(record))]

\* the execute of save_record: whether it raised, and the table afterwards
SaveLeave(table, emps, record) ==
    IF BindFails(LeaveStrParams(record))
    THEN [raised |-> TRUE, table |-> table]
    ELSE [raised |-> FALSE, table |-> InsertOrReplace(table, LeaveRow(record))]

\* POST /api/records
SaveRecord(record) ==
    LET run == SaveLeave(leave_records, employees, record) IN
    /\ leave_records' = IF run.raised THEN Rollback(leave_records, run.table)
                        ELSE run.table
    /\ last' = [op |-> "save_record", record |-> record,
                status |-> IF run.raised THEN 500 ELSE 200]
    /\ UNCHANGED <<employees, now, client>>

\* [dict(row) for row in rows]: the columns under their storage names
GetRecordsBody(rows) == [i \in 1..Len(rows) |-> rows[i]]

\* GET /api/records
GetRecords ==
    /\ \E rows \in Fetchall(leave_records) :
           last' = [op |-> "get_records"]
                       @@ ResponseModel(GetRecordsBody(rows), LeaveRecordRequired)
    /\ UNCHANGED <<employees, leave_records, now, client>>

NoExchange == [op |-> "none", status |-> 0]

\* after init_db on an absent store file
Init ==
    /\ employees = {}
    /\ leave_records = {}
    /\ now = 0
    /\ client = FALSE
    /\ last = NoExchange

Next ==
    \/ \E batch \in Batches : SyncEmployees(batch)
    \/ GetEmployees
    \/ \E record \in LeaveRecordInputs : SaveRecord(record)
    \/ GetRecords

Spec == Init /\ [][Next]_vars

-----------------------------------------------------------------------------
(* The compliance-analysis forwarder *)

\* dict.get(key, default)
DictGet(d, key, default) == IF key \in DOMAIN d THEN d[key] ELSE default

\* str() of a value of the prompt: None, or a number
PyStr(v) == IF v = -1 THEN "None" ELSE IntStr(v)

Active == "zaishokuchu"
Retired == "taishoku"

\* risk_employees[:10]
PromptLimit == 10

\* one key of a request dict; Absent leaves the key out
Absent == "<absent>"
StrKey(key, v) == IF v = Absent THEN <<>> ELSE (key :> v)
NumKey(key, v) == IF v < 0 THEN <<>> ELSE (key :> v)

\* the dicts of the employees list, without the name
SummaryShapes ==
    { StrKey("status", st) @@ NumKey("grantedTotal", g) @@ NumKey("usedTotal", u) :
        st \in {Active, Retired, Absent}, g \in {-1, 9, 10}, u \in {-1, 4, 5} }

AtRiskShape == [status |-> Active, grantedTotal |-> 12, usedTotal |-> 2]
RetiredShape == [status |-> Retired, grantedTotal |-> 12, usedTotal |-> 0]

\* every employee of a list carries its position as its name
Named(shapes) == [i \in 1..Len(shapes) |-> ("name" :> IntStr(i)) @@ shapes[i]]

EmployeeLists ==
    {Named(l) : l \in UNION {[1..n -> SummaryShapes] : n \in 0..MaxShortLen}}
    \cup {Named(l) : l \in UNION {[1..n -> {AtRiskShape, RetiredShape}] :
                                      n \in PromptLimit..MaxAnalyzeLen}}

\* the request bodies of /analyze: {} and {employees: [...]}
AnalyzeInputs == {<<>>} \cup {[employees |-> l] : l \in EmployeeLists}

Insight(title, type) ==
    <<P("{"), S("title"), P(":"), S(title), P(","),
      S("description"), P(":"), S("text"), P(","),
      S("type"), P(":"), S(type), P("}")>>

\* what the provider may do: raise, or answer with a text
ProviderOutcomes ==
    { [raises |-> TRUE, msg |-> "429 quota exceeded", text |-> <<>>] }
    \cup
    { [raises |-> FALSE, msg |-> "", text |-> t] : t \in
        { <<P("[")>> \o CommaJoin(<<Insight("a", "warning"), Insight("b", "info"),
                                    Insight("c", "success")>>) \o <<P("]")>>,
          <<P("[")>> \o CommaJoin(<<Insight("a", "warning"), Insight("b", "info"),
                                    Insight("c", "success"), Insight("d", "info")>>)
              \o <<P("]")>>,
          <<P("{"), S("insights"), P(":"), P("[")>> \o Insight("a", "warning")
              \o <<P("]"), P("}")>>,
          <<P("["), P("]")>>,
          <<P("[")>> \o Insight("a", "warning") \o <<P(",")>> } }

\* the message of the JSONDecodeError of json.loads
JsonDecodeMessage == "Expecting value"

\* a response body: the kind of the JSON value, and its elements with their
\* kinds when it is a list, the value itself as the one element otherwise
ListBody(items) ==
    [kind |-> "list", elems |-> [i \in 1..Len(items) |-> "dict"], val |-> items]

InfoItem == [title |-> "AI analysis not configured",
             description |-> "GEMINI_API_KEY is not set in the backend.",
             type |-> "info"]

\* f"AI error: {str(e)}"
WarningItem(msg) == [title |-> "legal analysis offline",
                     description |-> "AI error: " \o msg,
                     type |-> "warning"]

\* mutant: the credential check never short-circuits
NotClientNever(c) == FALSE

\* `not client`
NotClient(c) == ~c

\* mutant: the empty list goes on to the provider
NotEmployeesNever(l) == FALSE

\* `not employees`
NotEmployees(l) == l = <<>>

\* mutant: usedTotal of exactly 5 still counts as at risk
IsRiskInclusive(e) ==
    /\ DictGet(e, "status", None) = Active
    /\ DictGet(e, "grantedTotal", 0) >= 10
    /\ DictGet(e, "usedTotal", 0) <= 5

\* the condition of the risk_employees comprehension
IsRisk(e) ==
    /\ DictGet(e, "status", None) = Active
    /\ DictGet(e, "grantedTotal", 0) >= 10
    /\ DictGet(e, "usedTotal", 0) < 5

Min(a, b) == IF a < b THEN a ELSE b

\* the data the f-string puts into the prompt
Prompt(emps, risk) ==
    [total |-> Len(emps), risk |-> Len(risk),
     lines |-> [i \in 1..Min(Len(risk), PromptLimit) |->
                   [name |-> DictGet(risk[i], "name", "None"),
                    usedTotal |-> PyStr(DictGet(risk[i], "usedTotal", -1))]]]

NoPrompt == [total |-> 0, risk |-> 0, lines |-> <<>>]

\* the try block: the provider call and json.loads(response.text)
Forward(provider) ==
    IF provider.raises THEN ListBody(<<WarningItem(provider.msg)>>)
    ELSE LET r == JsonLoads(provider.text) IN
         IF r.ok
         THEN IF r.kind = "list"
              THEN [kind |-> "list", elems |-> r.elems, val |-> r.val]
              ELSE [kind |-> r.kind, elems |-> <<r.kind>>, val |-> <<r.val>>]
         ELSE ListBody(<<WarningItem(JsonDecodeMessage)>>)

\* the body of analyze_compliance
AnalyzeCompliance(c, data, provider) ==
    IF NotClient(c)
    THEN [body |-> ListBody(<<InfoItem>>), called |-> FALSE,
          risk_employees |-> <<>>, prompt |-> NoPrompt]
    ELSE LET emps == DictGet(data, "employees", <<>>) IN
         IF NotEmployees(emps)
         THEN [body |-> ListBody(<<>>), called |-> FALSE,
               risk_employees |-> <<>>, prompt |-> NoPrompt]
         ELSE LET risk_employees == SelectSeq(emps, IsRisk) IN
              [body |-> Forward(provider), called |-> TRUE,
               risk_employees |-> risk_employees,
               prompt |-> Prompt(emps, risk_employees)]

\* POST /api/analyze
Analyze(provider) ==
    /\ last.op = "analyze_request"
    /\ last' = [op |-> "analyze", data |-> last.data, provider |-> provider,
                status |-> 200]
               @@ AnalyzeCompliance(client, last.data, provider)
    /\ UNCHANGED <<employees, leave_records, now, client>>

\* a process started with or without GEMINI_API_KEY, and one /analyze
\* request on its way in
InitAI ==
    /\ employees = {}
    /\ leave_records = {}
    /\ now = 0
    /\ client \in BOOLEAN
    /\ \E data \in AnalyzeInputs : last = [op |-> "analyze_request", data |-> data]

NextAI == \E provider \in ProviderOutcomes : Analyze(provider)

SpecAI == InitAI /\ [][NextAI]_vars

-----------------------------------------------------------------------------
(* Properties of the storage handlers *)

BatchIds(batch) == {batch[i].id : i \in 1..Len(batch)}

AnyRecordFails(batch) ==
    \E i \in 1..Len(batch) : BindFails(EmployeeStrParams(batch[i]))

\* the last record of the batch with this id
LastWithId(batch, id) ==
    batch[CHOOSE i \in 1..Len(batch) :
              /\ batch[i].id = id
              /\ \A j \in (i + 1)..Len(batch) : batch[j].id # id]

\* the submitted list as listEmployees reports it: None reads back as []
Submitted(o) == IF o.isNone THEN <<>> ELSE o.val

\* a stored row holds exactly the submitted record and the call's timestamp
RowHolds(row, emp, timestamp) ==
    /\ row.id = emp.id
    /\ row.employee_num = emp.employee_num
    /\ row.name = emp.name
    /\ row.haken = emp.haken
    /\ row.granted = emp.granted
    /\ row.used = emp.used
    /\ row.balance = emp.balance
    /\ row.usage_rate = emp.usage_rate
    /\ row.year = emp.year
    /\ LoadColumn(row.period_history) = Submitted(emp.periodHistory)
    /\ LoadColumn(row.yukyu_dates) = Submitted(emp.yukyuDates)
    /\ row.last_updated = timestamp

RowsWithId(table, id) == {r \in table : r.id = id}

\* C1: syncEmployees is all-or-nothing.  If the upsert of any record of the
\* batch fails the call answers 500 and the employees table is what it was
\* before the call; if none fails the call answers 200 and every record's
\* id has a row written by this call.
C1_AllOrNothing ==
    [][last'.op = "sync_employees" =>
          IF AnyRecordFails(last'.req)
          THEN last'.status = 500 /\ employees' = employees
          ELSE /\ last'.status = 200
               /\ \A id \in BatchIds(last'.req) :
                      \E r \in employees' :
                          r.id = id /\ r.last_updated = last'.timestamp]_vars

\* a batch whose first record was upserted and whose second one failed, and
\* the first record's id has no row
C1_Witness ==
    /\ last.op = "sync_employees"
    /\ last.status = 500
    /\ Len(last.req) = 2
    /\ ~BindFails(EmployeeStrParams(last.req[1]))
    /\ last.req[1].id \notin RowIds(employees)

\* C2: round trip.  A successful syncEmployees followed by listEmployees
\* returns, for every synced employee whose periodHistory and yukyuDates are
\* non-empty, periodHistory and yukyuDates equal to the submitted sequences,
\* element for element and in the same order.
C2_RoundTrip ==
    [][(/\ last.op = "sync_employees"
        /\ last.status = 200
        /\ last'.op = "get_employees") =>
          /\ last'.status = 200
          /\ \A id \in BatchIds(last.req) :
                 LET emp == LastWithId(last.req, id) IN
                 (PyTruthy(emp.periodHistory) /\ PyTruthy(emp.yukyuDates)) =>
                     \E j \in 1..Len(last'.body) :
                         /\ last'.body[j].id = id
                         /\ last'.body[j].periodHistory = emp.periodHistory.val
                         /\ last'.body[j].yukyuDates = emp.yukyuDates.val]_vars

\* a listing that reports an employee with two periods and two dates that
\* are not in sorted order
C2_Witness ==
    /\ last.op = "get_employees"
    /\ last.status = 200
    /\ \E j \in 1..Len(last.body) :
           /\ Len(last.body[j].periodHistory) = 2
           /\ last.body[j].periodHistory[1].periodIndex
                  > last.body[j].periodHistory[2].periodIndex
           /\ last.body[j].yukyuDates = <<"2024-06-10", "2024-05-01">>

\* C3: idempotence.  Syncing the batch that was just synced again succeeds
\* and leaves exactly one row per id of the batch, equal to the row after
\* the first sync except for last_updated, which is the second call's
\* timestamp.
C3_Idempotent ==
    [][(/\ last.op = "sync_employees"
        /\ last.status = 200
        /\ last'.op = "sync_employees"
        /\ last'.req = last.req) =>
          /\ last'.status = 200
          /\ last'.timestamp # last.timestamp
          /\ RowIds(employees') = RowIds(employees)
          /\ \A id \in BatchIds(last.req) :
                 /\ Cardinality(RowsWithId(employees', id)) = 1
                 /\ RowOf(employees', id) =
                        [RowOf(employees, id) EXCEPT !.last_updated = last'.timestamp]]_vars

\* the same non-empty batch was pushed twice in a row
C3_Witness ==
    /\ last.op = "sync_employees"
    /\ last.status = 200
    /\ last.resent
    /\ Len(last.req) = 2

\* what a storage step may do to the two tables
C4_SyncFrame ==
    /\ leave_records' = leave_records
    /\ \A r \in employees : r.id \notin BatchIds(last'.req) => r \in employees'
    /\ IF last'.status = 200
       THEN \A id \in BatchIds(last'.req) :
                /\ Cardinality(RowsWithId(employees', id)) = 1
                /\ RowHolds(RowOf(employees', id), LastWithId(last'.req, id),
                            last'.timestamp)
       ELSE employees' = employees

C4_SaveFrame ==
    /\ employees' = employees
    /\ \A r \in leave_records : r.id # last'.record.id => r \in leave_records'
    /\ IF last'.status = 200
       THEN /\ Cardinality(RowsWithId(leave_records', last'.record.id)) = 1
            /\ LET row == RowOf(leave_records', last'.record.id) IN
               /\ row.employee_id = last'.record.employeeId
               /\ row.date = last'.record.date
               /\ row.type = last'.record.type
               /\ row.duration = last'.record.duration
               /\ row.note = last'.record.note
               /\ row.status = last'.record.status
               /\ row.created_at = last'.record.createdAt
       ELSE leave_records' = leave_records

\* C4: lifecycle of rows.  No call removes an id from either table; a row
\* whose id a call does not write is unchanged by it (syncEmployees leaves
\* leave_records alone, saveRecord leaves employees alone); a written row
\* equals in every column the last committed record with its id, nothing
\* carried over from the row it replaced.
C4_Lifecycle ==
    [][/\ RowIds(employees) \subseteq RowIds(employees')
       /\ RowIds(leave_records) \subseteq RowIds(leave_records')
       /\ (last'.op = "sync_employees" => C4_SyncFrame)
       /\ (last'.op = "save_record" => C4_SaveFrame)
       /\ (last'.op \in {"get_employees", "get_records"} =>
               employees' = employees /\ leave_records' = leave_records)]_vars

\* a later sync rewrote e1 without periodHistory while the row of e2, with
\* its history, and a leave record stayed from earlier calls
C4_Witness ==
    /\ last.op = "sync_employees"
    /\ last.status = 200
    /\ last.timestamp > 0
    /\ BatchIds(last.req) = {"e1"}
    /\ ~PyTruthy(LastWithId(last.req, "e1").periodHistory)
    /\ RowOf(employees, "e1").period_history.isNull
    /\ \E r \in employees :
           r.id = "e2" /\ r.last_updated < last.timestamp /\ ~r.period_history.isNull
    /\ leave_records # {}

\* the rows that carry the timestamp of the last call
RowsWrittenBy(timestamp) == {r \in employees : r.last_updated = timestamp}

\* C5 as claimed: the count of a successful syncEmployees is the number of
\* employees rows that carry the call's last_updated afterwards, for every
\* batch.
C5_CountIsRowsWritten ==
    (last.op = "sync_employees" /\ last.status = 200) =>
        last.count = Cardinality(RowsWrittenBy(last.timestamp))

\* C5: the count of a successful syncEmployees is the length of the batch
\* (the number of upserts executed), for every batch; the rows that carry
\* the call's last_updated afterwards are one per distinct id of the batch,
\* so the count exceeds their number exactly when an id repeats.
C5_CountIsBatchLength ==
    (last.op = "sync_employees" /\ last.status = 200) =>
        /\ last.count = Len(last.req)
        /\ Cardinality(RowsWrittenBy(last.timestamp)) = Cardinality(BatchIds(last.req))
        /\ Cardinality(RowsWrittenBy(last.timestamp)) <= last.count

\* a successful batch in which one id occurs twice
C5_Witness ==
    /\ last.op = "sync_employees"
    /\ last.status = 200
    /\ Len(last.req) = 2
    /\ last.req[1].id = last.req[2].id

\* C10: orphan tolerance.  saveRecord of a record whose employeeId is the id
\* of no employees row succeeds, and a following listRecords answers with a
\* list that contains the record with all its fields as submitted.
C10_OrphanRetrievable ==
    [][(/\ last.op = "save_record"
        /\ last.record.employeeId \notin RowIds(employees)
        /\ ~BindFails(LeaveStrParams(last.record))
        /\ last'.op = "get_records") =>
          /\ last.status = 200
          /\ last'.status = 200
          /\ \E j \in 1..Len(last'.body) :
                 /\ last'.body[j].id = last.record.id
                 /\ \A key \in DOMAIN last.record :
                        DictGet(last'.body[j], key, Absent) = last.record[key]]_vars

-----------------------------------------------------------------------------
(* Properties of the compliance-analysis forwarder *)

RequestEmployees == DictGet(last.data, "employees", <<>>)

\* a list of at most 3 objects that each have title, description and type
IsInsightList(body) ==
    /\ body.kind = "list"
    /\ Len(body.val) <= 3
    /\ \A i \in 1..Len(body.val) :
           /\ body.elems[i] = "dict"
           /\ {"title", "description", "type"} \subseteq DOMAIN body.val[i]

\* C6 as claimed: /analyze with an empty employees sequence returns an empty
\* sequence in every configuration, credential or not.
C6_EmptyInputAnyConfiguration ==
    (last.op = "analyze" /\ RequestEmployees = <<>>) =>
        last.body.kind = "list" /\ last.body.val = <<>>

\* C6: when an AI credential is configured, /analyze with an empty (or
\* absent) employees sequence returns an empty sequence and does not call
\* the provider.
C6_EmptyInputWithCredential ==
    (last.op = "analyze" /\ client /\ RequestEmployees = <<>>) =>
        last.body.kind = "list" /\ last.body.val = <<>> /\ ~last.called

\* a configured service answered {employees: []}
C6_Witness ==
    /\ last.op = "analyze"
    /\ client
    /\ "employees" \in DOMAIN last.data
    /\ last.data.employees = <<>>
    /\ last.body.val = <<>>

\* C7: without an AI credential every /analyze call, whatever its body,
\* returns exactly one item, of type "info", and does not reach the
\* provider call.
C7_MissingCredential ==
    (last.op = "analyze" /\ ~client) =>
        /\ last.body.kind = "list"
        /\ Len(last.body.val) = 1
        /\ last.body.val[1].type = "info"
        /\ ~last.called

\* an unconfigured service answered a request that names at-risk employees
C7_Witness ==
    /\ last.op = "analyze"
    /\ ~client
    /\ \E i \in 1..Len(RequestEmployees) : RequestEmployees[i] = Named(<<AtRiskShape>>)[1]
    /\ last.body.val = <<InfoItem>>

\* C8: the /analyze response is for every outcome a sequence of at most 3
\* insight objects with title, description and type; when the provider call
\* raises or its text is not JSON it is exactly one "warning" item whose
\* description embeds the failure message.
C8_InsightShape ==
    last.op = "analyze" =>
        /\ IsInsightList(last.body)
        /\ (last.called /\ (last.provider.raises \/ ~JsonLoads(last.provider.text).ok)) =>
               /\ Len(last.body.val) = 1
               /\ last.body.val[1].type = "warning"
               /\ last.body.val[1].description =
                      "AI error: " \o (IF last.provider.raises THEN last.provider.msg
                                        ELSE JsonDecodeMessage)

\* the condition of C9 on one employee of the request
C9_AtRisk(e) ==
    /\ "status" \in DOMAIN e
    /\ e.status = "zaishokuchu"
    /\ (IF "grantedTotal" \in DOMAIN e THEN e.grantedTotal ELSE 0) >= 10
    /\ (IF "usedTotal" \in DOMAIN e THEN e.usedTotal ELSE 0) < 5

C9_AtRiskPositions == {i \in 1..Len(RequestEmployees) : C9_AtRisk(RequestEmployees[i])}

\* the position in the request of the k-th at-risk employee
C9_Position(k) ==
    CHOOSE i \in C9_AtRiskPositions :
        Cardinality({j \in C9_AtRiskPositions : j <= i}) = k

\* C9: with a credential configured, the employees selected as at-risk are
\* exactly those whose status is "zaishokuchu", whose grantedTotal is at
\* least 10 and whose usedTotal is below 5, a missing total counting as 0;
\* they keep the order of the input, and the prompt names the first 10 of
\* them at most.
C9_Threshold ==
    (last.op = "analyze" /\ client /\ RequestEmployees # <<>>) =>
        /\ last.called
        /\ Len(last.risk_employees) = Cardinality(C9_AtRiskPositions)
        /\ \A k \in 1..Len(last.risk_employees) :
               last.risk_employees[k] = RequestEmployees[C9_Position(k)]
        /\ last.prompt.risk = Cardinality(C9_AtRiskPositions)
        /\ Len(last.prompt.lines) = Min(Cardinality(C9_AtRiskPositions), 10)
        /\ \A k \in 1..Len(last.prompt.lines) :
               last.prompt.lines[k].name = RequestEmployees[C9_Position(k)].name

\* eleven employees are at risk and the prompt names ten of them
C9_Witness ==
    /\ last.op = "analyze"
    /\ client
    /\ Len(last.risk_employees) = 11
    /\ Len(last.prompt.lines) = 10

====
